---- MODULE Spec2Model ----
(***************************************************************************)
(* A model of rungen's Project Tool Sandbox (class ProjectTools of         *)
(* orion1_team_project_object.py): read_file, write_file, list_files and   *)
(* run_command over a POSIX file tree, together with the parts of pathlib, *)
(* os.path.realpath and subprocess.run those methods call.                 *)
(*                                                                         *)
(* A canonical path is the sequence of its component names (<<>> is "/"). *)
(* A caller-supplied path is a record [abs, segs]: segs may hold ".." and  *)
(* ".".                                                                    *)
(***************************************************************************)
EXTENDS Integers, Sequences, FiniteSets, TLC

VARIABLES fs, written, procs, call, result, ops, environ, resolution, threads

vars == <<fs, written, procs, call, result, ops, environ, resolution, threads>>

-----------------------------------------------------------------------------
(* Bounds of the model *)

\* longest caller-supplied path, in segments
MaxPathLen == 2

\* longest text passed to write_file, in characters
MaxContentLen == 1

\* number of tool calls in one run
MaxOps == 2

\* number of tool calls in one session on a few files
MaxSession == 3

\* number of create_agent calls in one run of the resolver
MaxResolutions == 1

\* number of steps (create_agent calls and changes of os.environ) of one process
MaxProcessSteps == 3

\* number of threads that call the tools at the same time
MaxThreads == 2

\* the objects of a directory listed through the tool
MaxEntries == 23

-----------------------------------------------------------------------------
(* Sequences *)

Front(s) == SubSeq(s, 1, Len(s) - 1)

Last(s) == s[Len(s)]

IsPrefix(p, s) == Len(p) <= Len(s) /\ SubSeq(s, 1, Len(p)) = p

SeqsUpTo(S, n) == UNION {[1..k -> S] : k \in 0..n}

Contains(s, sub) ==
  \E i \in 0..(Len(s) - Len(sub)) : SubSeq(s, i + 1, i + Len(sub)) = sub

Range(s) == {s[i] : i \in DOMAIN s}

-----------------------------------------------------------------------------
(* The file tree *)

\* Path(project_root).resolve(): the canonical project root, /proj
project_root == <<"proj">>

\* self.project_root / "workspace"
workspace_dir == Append(project_root, "workspace")

\* the spelling of each component name, one character per element
NameChars ==
  [proj      |-> <<"p", "r", "o", "j">>,
   proj2     |-> <<"p", "r", "o", "j", "2">>,
   out       |-> <<"o", "u", "t">>,
   workspace |-> <<"w", "o", "r", "k", "s", "p", "a", "c", "e">>,
   f         |-> <<"f">>,
   d         |-> <<"d">>,
   lnk       |-> <<"l", "n", "k">>]

Dir == [kind |-> "dir"]

File(data) == [kind |-> "file", data |-> data]

Link(target) == [kind |-> "link", target |-> target]

\* the tree once ProjectTools.__init__ has run: the root and its workspace
\* directory exist, with a text file and a file whose bytes are not UTF-8;
\* around them, a sibling directory and a foreign one
StartTree(target) ==
  (<<>> :> Dir) @@ (project_root :> Dir) @@ (workspace_dir :> Dir)
  @@ (<<"proj", "f">> :> File(<<"x">>))
  @@ (<<"proj", "workspace", "f">> :> File(<<"BAD">>))
  @@ (<<"proj", "lnk">> :> Link(target))
  @@ (<<"proj2">> :> Dir) @@ (<<"proj2", "f">> :> File(<<"x">>))
  @@ (<<"out">> :> Dir) @@ (<<"out", "f">> :> File(<<"x">>))

Exists(t, p) == p \in DOMAIN t

IsDirAt(t, p) == p \in DOMAIN t /\ t[p].kind = "dir"

IsFileAt(t, p) == p \in DOMAIN t /\ t[p].kind = "file"

Parent(p) == IF p = <<>> THEN <<>> ELSE Front(p)

\* a symbolic link is replaced by its target (targets are canonical)
Follow(t, p) == IF p \in DOMAIN t /\ t[p].kind = "link" THEN t[p].target ELSE p

\* component-wise containment: p is the root or lies under it
Inside(p) == IsPrefix(project_root, p)

-----------------------------------------------------------------------------
(* pathlib and os.path *)

\* the path arguments a caller may write, relative or absolute, and a path
\* argument that is not a string (None)
PathArgs ==
  [str : {TRUE}, abs : BOOLEAN,
   segs : SeqsUpTo({"..", ".", "proj2", "f", "lnk"}, MaxPathLen)]
    \cup {[str |-> FALSE, abs |-> FALSE, segs |-> <<>>]}

RECURSIVE DropDots(_)
\* pathlib drops "." segments when it parses a path
DropDots(segs) ==
  IF segs = <<>> THEN <<>>
  ELSE IF Head(segs) = "." THEN DropDots(Tail(segs))
  ELSE <<Head(segs)>> \o DropDots(Tail(segs))

\* self.project_root / file_path: an absolute operand replaces the root;
\* ".." segments are kept
Join(p) ==
  IF p.abs THEN DropDots(p.segs) ELSE project_root \o DropDots(p.segs)

RECURSIVE RealFrom(_, _, _)
\* os.path.realpath, not strict: ".." drops the last resolved component, a
\* link is replaced by its target, a missing component is kept as written
RealFrom(t, cur, segs) ==
  IF segs = <<>> THEN cur
  ELSE IF Head(segs) = ".." THEN RealFrom(t, Parent(cur), Tail(segs))
  ELSE RealFrom(t, Follow(t, Append(cur, Head(segs))), Tail(segs))

\* full_path.resolve()
Resolve(t, segs) == RealFrom(t, <<>>, segs)

RECURSIVE StrOf(_)
\* str(path)
StrOf(p) ==
  IF p = <<>> THEN <<"/">>
  ELSE IF Len(p) = 1 THEN <<"/">> \o NameChars[p[1]]
  ELSE StrOf(Front(p)) \o <<"/">> \o NameChars[Last(p)]

\* a prefix check that demands the separator after the root's name, and so
\* does not accept the root itself
StartsWithRootAndSeparator(resolved) ==
  IsPrefix(StrOf(project_root) \o <<"/">>, StrOf(resolved))

\* str(full_path.resolve()).startswith(str(self.project_root))
StartsWithRoot(resolved) == IsPrefix(StrOf(project_root), StrOf(resolved))

-----------------------------------------------------------------------------
(* The kernel's path walk *)

RECURSIVE Walk(_, _, _)
\* the walk from the directory cur: links are followed, and every segment
\* but the last must name a directory
Walk(t, cur, segs) ==
  IF segs = <<>> THEN [ok |-> TRUE, at |-> cur]
  ELSE IF Head(segs) = ".." THEN Walk(t, Parent(cur), Tail(segs))
  ELSE IF Len(segs) = 1
  THEN [ok |-> TRUE, at |-> Follow(t, Append(cur, Head(segs)))]
  ELSE IF IsDirAt(t, Follow(t, Append(cur, Head(segs))))
  THEN Walk(t, Follow(t, Append(cur, Head(segs))), Tail(segs))
  ELSE [ok |-> FALSE, at |-> Follow(t, Append(cur, Head(segs)))]

\* the object a path names, links followed: [ok, at]; with ok, at's parent
\* directory was reached and at itself may be missing
Stat(t, segs) == Walk(t, <<>>, segs)

\* an existence test that every path passes
AlwaysExists(t, segs) == TRUE

\* Path.exists()
PathExists(t, segs) == \E st \in {Stat(t, segs)} : st.ok /\ Exists(t, st.at)

\* Path.is_dir()
PathIsDir(t, segs) == \E st \in {Stat(t, segs)} : st.ok /\ IsDirAt(t, st.at)

\* mkdirat: make the entry name in the directory the walk par has reached
MkdirAt(t, par, name) ==
  IF ~par.ok \/ ~IsDirAt(t, par.at)
  THEN [err |-> IF Exists(t, par.at) THEN "ENOTDIR" ELSE "ENOENT", fs |-> t]
  ELSE IF name = ".." \/ Exists(t, Append(par.at, name))
  THEN [err |-> "EEXIST", fs |-> t]
  ELSE [err |-> "", fs |-> (Append(par.at, name) :> Dir) @@ t]

\* os.mkdir: [err, fs]
OsMkdir(t, segs) ==
  IF segs = <<>> THEN [err |-> "EEXIST", fs |-> t]
  ELSE MkdirAt(t, Stat(t, Front(segs)), Last(segs))

RECURSIVE PathMkdir(_, _, _, _)
\* Path.mkdir(parents, exist_ok): [raised, fs]
PathMkdir(t, segs, parents, exist_ok) ==
  LET r == OsMkdir(t, segs)
  IN  IF r.err = "" THEN [raised |-> FALSE, fs |-> r.fs]
      ELSE IF r.err = "ENOENT"
      THEN IF ~parents \/ segs = <<>> THEN [raised |-> TRUE, fs |-> t]
           ELSE LET up == PathMkdir(t, Front(segs), TRUE, TRUE)
                IN  IF up.raised THEN up
                    ELSE PathMkdir(up.fs, segs, FALSE, exist_ok)
      ELSE [raised |-> ~exist_ok \/ ~PathIsDir(t, segs), fs |-> t]

-----------------------------------------------------------------------------
(* Text and bytes *)

\* a content argument: a str, or a value that is not one (None); the
\* characters of a str: a letter, carriage return, line feed, a lone surrogate
Contents ==
  [str : {TRUE}, chars : SeqsUpTo({"x", "CR", "LF", "SUR"}, MaxContentLen)]
    \cup {[str |-> FALSE, chars |-> <<>>]}

\* str.encode('utf-8') raises on a lone surrogate
Encodable(text) == "SUR" \notin Range(text)

\* the bytes write_text stores for an encodable text (POSIX: "\n" is kept)
Encode(text) == text

\* bytes.decode('utf-8') raises on bytes that are not UTF-8
Decodable(data) == "BAD" \notin Range(data)

RECURSIVE Universal(_)
\* text-mode reading with newline=None: "\r\n" and "\r" become "\n"
Universal(data) ==
  IF data = <<>> THEN <<>>
  ELSE IF Head(data) = "CR"
  THEN IF Len(data) > 1 /\ data[2] = "LF"
       THEN <<"LF">> \o Universal(Tail(Tail(data)))
       ELSE <<"LF">> \o Universal(Tail(data))
  ELSE <<Head(data)>> \o Universal(Tail(data))

\* the str read_text returns for decodable bytes
Decode(data) == Universal(data)

-----------------------------------------------------------------------------
(* Results *)

NoError == [msg |-> "", arg |-> ""]

\* an f-string: a fixed text followed by the value of one argument
Text(msg, arg) == [msg |-> msg, arg |-> arg]

FileReadResult(success, content, error) ==
  [type |-> "FileReadResult", success |-> success, content |-> content,
   error |-> error]

FileWriteResult(success, message, error) ==
  [type |-> "FileWriteResult", success |-> success, message |-> message,
   error |-> error]

\* before the first call
NoResult == [type |-> "none", success |-> TRUE]

\* an exception that leaves the method instead of a result
Raise(exc) == [type |-> "raise", exc |-> exc]

\* what a method body yields: a returned value, or an exception on its way
\* to the except clause; fs is the tree it leaves and io the objects it has
\* opened, created or changed
Return(value, t, io) == [exc |-> "", value |-> value, fs |-> t, io |-> io]

Throw(exc, t, io) == [exc |-> exc, value |-> NoError, fs |-> t, io |-> io]

\* the exceptions a try block raises here, all subclasses of Exception
Exceptions ==
  {"TypeError", "AttributeError", "ValueError", "NotImplementedError",
   "OSError", "FileNotFoundError", "IsADirectoryError", "UnicodeDecodeError",
   "UnicodeEncodeError", "TimeoutExpired"}

\* try: body / except ... as e: return handler[e]
Try(body, handler) ==
  [body EXCEPT !.value = IF body.exc = "" THEN @ ELSE handler[body.exc]]

-----------------------------------------------------------------------------
(* read_file *)

\* full_path.read_text(encoding='utf-8')
\* the read of the object at, which the path full_path names
read_at(t, at, fault) ==
  IF fault = "open" THEN Throw("OSError", t, {})
  ELSE IF ~IsFileAt(t, at) THEN Throw("IsADirectoryError", t, {})
  ELSE IF ~Decodable(t[at].data) THEN Throw("UnicodeDecodeError", t, {at})
  ELSE Return(FileReadResult(TRUE, Decode(t[at].data), NoError), t, {at})

read_text(t, full_path, fault) == read_at(t, Stat(t, full_path).at, fault)

\* the try block of read_file
read_file_try(t, file_path, fault) ==
  IF ~file_path.str THEN Throw("TypeError", t, {})
  ELSE IF ~StartsWithRoot(Resolve(t, Join(file_path)))
  THEN Return(FileReadResult(FALSE, <<>>,
                Text("Access denied: Path outside project root: ", "file_path")),
              t, {})
  ELSE IF ~PathExists(t, Join(file_path))
  THEN Return(FileReadResult(FALSE, <<>>, Text("File not found: ", "file_path")),
              t, {})
  ELSE read_text(t, Join(file_path), fault)

\* a handler that lets the exception go on
read_file_reraise(exc) == Raise(exc)

\* except Exception as e, of read_file
read_file_except(exc) ==
  FileReadResult(FALSE, <<>>, Text("Error reading file ", "file_path, e"))

\* ProjectTools.read_file: the value it returns, with the exception its try
\* block raised, the tree it leaves and the objects it used
read_file(t, file_path, fault) ==
  Try(read_file_try(t, file_path, fault),
      [exc \in Exceptions |-> read_file_except(exc)])

-----------------------------------------------------------------------------
(* write_file *)

\* full_path.write_text(content, encoding='utf-8'): open(mode='w') truncates
\* or creates the file, then the text is encoded and written
\* the write to the object st.at, which the path full_path names
write_at(t, st, content, fault) ==
  IF ~content.str THEN Throw("TypeError", t, {})
  ELSE IF ~st.ok THEN Throw("FileNotFoundError", t, {})
  ELSE IF IsDirAt(t, st.at) THEN Throw("IsADirectoryError", t, {})
  ELSE IF ~Exists(t, st.at) /\ ~IsDirAt(t, Parent(st.at))
  THEN Throw("FileNotFoundError", t, {})
  ELSE IF ~Encodable(content.chars)
  THEN Throw("UnicodeEncodeError", (st.at :> File(<<>>)) @@ t, {st.at})
  ELSE IF fault = "write"
  THEN Throw("OSError", (st.at :> File(<<>>)) @@ t, {st.at})
  ELSE Return(FileWriteResult(TRUE,
                [msg |-> "Successfully wrote", count |-> Len(content.chars),
                 arg |-> "file_path"], NoError),
              (st.at :> File(Encode(content.chars))) @@ t, {st.at})

write_text(t, full_path, content, fault) ==
  write_at(t, Stat(t, full_path), content, fault)

\* the directories a mkdir has added
Made(t, u) == DOMAIN u \ DOMAIN t

\* no directory is made
no_parents(t, file_path, create_dirs) == [raised |-> FALSE, fs |-> t]

\* if create_dirs: full_path.parent.mkdir(parents=True, exist_ok=True)
make_parents(t, file_path, create_dirs) ==
  IF create_dirs THEN PathMkdir(t, Parent(Join(file_path)), TRUE, TRUE)
  ELSE [raised |-> FALSE, fs |-> t]

\* the write that follows, in the tree made.fs the mkdir has left
write_file_write(t, made, file_path, content, fault) ==
  IF made.raised THEN Throw("OSError", made.fs, Made(t, made.fs))
  ELSE [write_text(made.fs, Join(file_path), content, fault)
          EXCEPT !.io = @ \cup Made(t, made.fs)]

\* the try block of write_file
write_file_try(t, file_path, content, create_dirs, fault) ==
  IF ~file_path.str THEN Throw("TypeError", t, {})
  ELSE IF ~StartsWithRoot(Resolve(t, Join(file_path)))
  THEN Return(FileWriteResult(FALSE, NoError,
                Text("Access denied: Path outside project root: ", "file_path")),
              t, {})
  ELSE IF create_dirs /\ fault = "mkdir" THEN Throw("OSError", t, {})
  ELSE write_file_write(t, make_parents(t, file_path, create_dirs), file_path,
                        content, fault)

\* except Exception as e, of write_file
write_file_except(exc) ==
  FileWriteResult(FALSE, NoError, Text("Error writing file ", "file_path, e"))

\* ProjectTools.write_file
write_file(t, file_path, content, create_dirs, fault) ==
  Try(write_file_try(t, file_path, content, create_dirs, fault),
      [exc \in Exceptions |-> write_file_except(exc)])

-----------------------------------------------------------------------------
(* list_files *)

Pattern(abs, parts) == [abs |-> abs, parts |-> parts]

\* glob patterns: "*", "f", "../*", "/*" and ""
Patterns ==
  {Pattern(FALSE, <<"*">>), Pattern(FALSE, <<"f">>),
   Pattern(FALSE, <<"..", "*">>), Pattern(TRUE, <<"*">>), Pattern(FALSE, <<>>)}

\* os.scandir: the entries of the directory at canonical path d
Children(t, d) == {p \in DOMAIN t : Len(p) = Len(d) + 1 /\ Front(p) = d}

RECURSIVE Select(_, _, _)
\* pathlib's selector chain from the path lp (as written, ".." kept): a
\* wildcard part takes every entry of the directory, any other part the
\* child of that name if it exists
Select(t, lp, parts) ==
  IF parts = <<>> THEN {lp}
  ELSE IF ~PathIsDir(t, lp) THEN {}
  ELSE IF Head(parts) = "*"
  THEN UNION {Select(t, Append(lp, Last(c)), Tail(parts)) :
                c \in Children(t, Stat(t, lp).at)}
  ELSE IF PathExists(t, Append(lp, Head(parts)))
  THEN Select(t, Append(lp, Head(parts)), Tail(parts))
  ELSE {}

\* the "**" selector: lp and every directory below it, symbolic links to
\* directories not entered
Directories(t, lp) ==
  UNION {{lp \o SubSeq(d, Len(at) + 1, Len(d)) :
            d \in {x \in DOMAIN t : IsPrefix(at, x) /\ t[x].kind = "dir"}} :
           at \in {Stat(t, lp).at}}

\* Path.glob(pattern)
glob(t, lp, parts) == Select(t, lp, parts)

\* Path.rglob(pattern)
rglob(t, lp, parts) ==
  IF ~PathIsDir(t, lp) THEN {}
  ELSE UNION {Select(t, d, parts) : d \in Directories(t, lp)}

\* f.relative_to(self.project_root) compares the parts as written
RelativeTo(lp) == SubSeq(lp, Len(project_root) + 1, Len(lp))

\* one file_info
FileInfo(t, lp) ==
  [path |-> RelativeTo(lp),
   name |-> IF lp = <<>> THEN "" ELSE Last(lp),
   is_file |-> IsFileAt(t, Stat(t, lp).at),
   is_dir |-> IsDirAt(t, Stat(t, lp).at),
   size |-> IF IsFileAt(t, Stat(t, lp).at) THEN Len(t[Stat(t, lp).at].data)
            ELSE 0]

ListResult(directory, pattern, recursive, files) ==
  [type |-> "ListResult", success |-> TRUE, directory |-> directory,
   pattern |-> pattern, recursive |-> recursive, files |-> files,
   count |-> Cardinality(files)]

ListError(error) == [type |-> "ListResult", success |-> FALSE, error |-> error]

\* the loop over the files found, and the result made of its list
list_files_loop(t, directory, pattern, recursive, fault, files) ==
  [IF \E f \in files : ~IsPrefix(project_root, f) THEN Throw("ValueError", t, {})
   ELSE IF fault = "stat" /\ files # {} THEN Throw("OSError", t, {})
   ELSE Return(ListResult(directory, pattern, recursive,
                          {FileInfo(t, f) : f \in files}), t, {})
     EXCEPT !.io = {Stat(t, Join(directory)).at} \cup {Stat(t, f).at : f \in files}]

\* the try block of list_files
list_files_try(t, directory, pattern, recursive, fault) ==
  IF ~directory.str THEN Throw("TypeError", t, {})
  ELSE IF ~StartsWithRoot(Resolve(t, Join(directory)))
  THEN Return(ListError(
                Text("Access denied: Path outside project root: ", "directory")),
              t, {})
  ELSE IF ~PathExists(t, Join(directory))
  THEN Return(ListError(Text("Directory not found: ", "directory")), t, {})
  ELSE IF pattern.parts = <<>> THEN Throw("ValueError", t, {})
  ELSE IF pattern.abs THEN Throw("NotImplementedError", t, {})
  ELSE list_files_loop(t, directory, pattern, recursive, fault,
                       IF recursive THEN rglob(t, Join(directory), pattern.parts)
                       ELSE glob(t, Join(directory), pattern.parts))

\* except Exception as e, of list_files
list_files_except(exc) ==
  ListError(Text("Error listing files in ", "directory, e"))

\* ProjectTools.list_files
list_files(t, directory, pattern, recursive, fault) ==
  Try(list_files_try(t, directory, pattern, recursive, fault),
      [exc \in Exceptions |-> list_files_except(exc)])

-----------------------------------------------------------------------------
(* run_command *)

\* command texts, one character per element
EchoHi == <<"e", "c", "h", "o", " ", "h", "i">>

RmRf == <<"r", "m", " ", "-", "r", "f", " ", "f">>

RmRfUpper == <<"R", "M", " ", "-", "R", "F", " ", "f">>

RmR == <<"r", "m", " ", "-", "r", " ", "f">>

Exit3 == <<"e", "x", "i", "t", " ", "3">>

KillHup == <<"k", "i", "l", "l", " ", "-", "H", "U", "P", " ", "$", "$">>

Sleep99Echo == <<"s", "l", "e", "e", "p", " ", "9", "9", ";", " ", "e", "c", "h", "o", " ", "h", "i">>

Sleep5 == <<"s", "l", "e", "e", "p", " ", "5">>

TouchF == <<"t", "o", "u", "c", "h", " ", "f">>

PrintfFF == <<"p", "r", "i", "n", "t", "f", " ", "'", "\\", "3", "7", "7", "'">>

CommandTexts ==
  {EchoHi, RmRf, RmRfUpper, RmR, Exit3, KillHup, Sleep99Echo, Sleep5, TouchF,
   PrintfFF,
   <<"f", "o", "r", "m", "a", "t", " ", "c", ":">>,
   <<"D", "E", "L", " ", "/", "F", " ", "f">>,
   <<"s", "u", "d", "o", " ", "r", "m", " ", "f">>,
   <<"c", "h", "m", "o", "d", " ", "7", "7", "7", " ", "f">>}

\* a command argument: a str, or a value that is not one (None)
Commands == [str : {TRUE}, text : CommandTexts] \cup {[str |-> FALSE, text |-> <<>>]}

\* dangerous_commands
dangerous_commands ==
  {<<"r", "m", " ", "-", "r", "f">>,
   <<"f", "o", "r", "m", "a", "t">>,
   <<"d", "e", "l", " ", "/", "f">>,
   <<"s", "u", "d", "o", " ", "r", "m">>,
   <<"c", "h", "m", "o", "d", " ", "7", "7", "7">>}

\* the upper-case letters of the command texts
LowerCase == [A |-> "a", B |-> "b", C |-> "c", D |-> "d", E |-> "e", F |-> "f", G |-> "g", H |-> "h", I |-> "i", J |-> "j", K |-> "k", L |-> "l", M |-> "m", N |-> "n", O |-> "o", P |-> "p", Q |-> "q", R |-> "r", S |-> "s", T |-> "t", U |-> "u", V |-> "v", W |-> "w", X |-> "x", Y |-> "y", Z |-> "z"]

\* str.lower()
Lower(s) ==
  [i \in DOMAIN s |-> IF s[i] \in DOMAIN LowerCase THEN LowerCase[s[i]] ELSE s[i]]

\* the same test without lower()
DangerousCaseSensitive(text) ==
  \E d \in dangerous_commands : Contains(text, d)

\* any(dangerous in command.lower() for dangerous in dangerous_commands)
Dangerous(text) ==
  LET lowered == Lower(text)
  IN  \E d \in dangerous_commands : Contains(lowered, d)

CommandResult(success, stdout, stderr, return_code, command) ==
  [type |-> "CommandResult", success |-> success, stdout |-> stdout,
   stderr |-> stderr, return_code |-> return_code, command |-> command]

\* what /bin/sh -c does with a command text in the directory at: its exit
\* status as subprocess reports it (minus the signal number when a signal
\* ended the shell), the bytes on stdout, the text on stderr, its running
\* time in seconds, whether the work is done by a child process of the
\* shell, and the tree it leaves
Shell(t, at, text) ==
  [[rc |-> 0, out |-> <<>>, err |-> NoError, secs |-> 0, forks |-> FALSE,
    fs |-> t]
     EXCEPT
       !.rc = CASE text \in {EchoHi, Sleep99Echo, Sleep5, PrintfFF, TouchF} -> 0
                [] text = Exit3 -> 3
                [] text = KillHup -> -1
                [] text \in {RmR, RmRf} ->
                     IF Exists(t, Append(at, "f")) THEN 0 ELSE 1
                [] OTHER -> 127,
       !.out = CASE text = EchoHi -> <<"h", "i", "LF">>
                 [] text = PrintfFF -> <<"BAD">>
                 [] OTHER -> <<>>,
       !.err = CASE text \in {EchoHi, Sleep99Echo, Sleep5, PrintfFF, TouchF,
                              Exit3, KillHup} -> NoError
                 [] text \in {RmR, RmRf} ->
                      IF Exists(t, Append(at, "f")) THEN NoError
                      ELSE Text("rm: cannot remove", "")
                 [] OTHER -> Text("sh: not found", ""),
       !.secs = CASE text = Sleep99Echo -> 99
                  [] text = Sleep5 -> 5
                  [] OTHER -> 0,
       !.forks = (text = Sleep99Echo),
       !.fs = CASE text = TouchF ->
                     IF \/ Exists(t, Follow(t, Append(at, "f")))
                        \/ ~IsDirAt(t, Parent(Follow(t, Append(at, "f"))))
                     THEN t
                     ELSE (Follow(t, Append(at, "f")) :> File(<<>>)) @@ t
                [] text \in {RmR, RmRf} ->
                     [p \in {q \in DOMAIN t : ~IsPrefix(Append(at, "f"), q)}
                        |-> t[p]]
                [] OTHER -> t]

\* the value or exception of a run_command body, with what became of the
\* process: spawned, ran to its end (then with which status and output), and
\* the processes still running
Ran(exc, value, t, io, spawned, exited, left) ==
  [exc |-> exc, value |-> value, fs |-> t, io |-> io, spawned |-> spawned,
   exited |-> exited, left |-> left, rc |-> 0, out |-> <<>>]

\* subprocess.run(command, shell=True, cwd=work_dir, capture_output=True,
\* text=True, timeout=timeout): on expiry it kills the shell it started,
\* waits for it and raises TimeoutExpired
\* Popen.communicate(timeout) on the shell sh started in the directory at,
\* and what run makes of it
communicate(t, at, command, sh, timeout) ==
  IF sh.secs >= timeout
  THEN Ran("TimeoutExpired", NoError, t, {at}, TRUE, FALSE,
           IF sh.forks THEN {[kind |-> "child", command |-> command.text]}
           ELSE {})
  ELSE [IF ~Decodable(sh.out)
        THEN Ran("UnicodeDecodeError", NoError, sh.fs, {at}, TRUE, TRUE, {})
        ELSE Ran("", CommandResult(sh.rc = 0, Decode(sh.out), sh.err, sh.rc,
                                   command),
                 sh.fs, {at}, TRUE, TRUE, {})
          EXCEPT !.rc = sh.rc, !.out = sh.out]

subprocess_run(t, command, work_dir, timeout) ==
  IF ~PathIsDir(t, work_dir)
  THEN Ran("FileNotFoundError", NoError, t, {}, FALSE, FALSE, {})
  ELSE communicate(t, Stat(t, work_dir).at, command,
                   Shell(t, Stat(t, work_dir).at, command.text), timeout)

\* a cwd that is not None and not ""
Truthy(cwd) == cwd.str /\ (cwd.abs \/ cwd.segs # <<>>)

\* the try block of run_command
run_command_try(t, command, cwd, timeout) ==
  IF Truthy(cwd) /\ ~StartsWithRoot(Resolve(t, Join(cwd)))
  THEN Ran("", CommandResult(FALSE, <<>>,
                 Text("Access denied: Working directory outside project root: ",
                      "cwd"), -1, command),
           t, {}, FALSE, FALSE, {})
  ELSE IF ~command.str
  THEN Ran("AttributeError", NoError, t, {}, FALSE, FALSE, {})
  ELSE IF Dangerous(command.text)
  THEN Ran("", CommandResult(FALSE, <<>>,
                 Text("Potentially dangerous command blocked: ", "command"),
                 -1, command),
           t, {}, FALSE, FALSE, {})
  ELSE subprocess_run(t, command,
                      IF Truthy(cwd) THEN Join(cwd) ELSE project_root, timeout)

\* except subprocess.TimeoutExpired, then except Exception as e
run_command_except(exc, command) ==
  IF exc = "TimeoutExpired"
  THEN CommandResult(FALSE, <<>>, Text("Command timed out after ", "timeout"),
                     -1, command)
  ELSE CommandResult(FALSE, <<>>, Text("Error executing command: ", "e"),
                     -1, command)

\* ProjectTools.run_command
run_command(t, command, cwd, timeout) ==
  Try(run_command_try(t, command, cwd, timeout),
      [exc \in Exceptions |-> run_command_except(exc, command)])

-----------------------------------------------------------------------------
(* The model resolver (class MultiProviderConfig of orion1_models.py) *)

\* a value that may be None, or a string of the characters chars
None == [none |-> TRUE, chars |-> <<>>]

Str(chars) == [none |-> FALSE, chars |-> chars]

\* the variables __init__ reads
EnvNames ==
  {"GROQ_API_KEY", "OPEN_AI_KEY", "GOOGLE_API_KEY", "CLAUDE_API_KEY",
   "DEEPKEY_API_KEY"}

\* the key a variable holds when it is set to one: one key per variable
KeyOf ==
  [GROQ_API_KEY |-> <<"k", "1">>, OPEN_AI_KEY |-> <<"k", "2">>,
   GOOGLE_API_KEY |-> <<"k", "3">>, CLAUDE_API_KEY |-> <<"k", "4">>,
   DEEPKEY_API_KEY |-> <<"k", "5">>]

\* a variable is not set, set to the empty string, or set to its key
Environs ==
  {env \in [EnvNames -> {None, Str(<<>>)} \cup {Str(KeyOf[n]) : n \in EnvNames}] :
     \A n \in EnvNames : env[n] \in {None, Str(<<>>), Str(KeyOf[n])}}

\* the environment of a process in which no variable is set
NoEnviron == [n \in EnvNames |-> None]

\* os.getenv(name)
getenv(env, name) == env[name]

\* provider ids, one character per element
Groq == <<"g", "r", "o", "q">>

OpenAI == <<"o", "p", "e", "n", "a", "i">>

Moonshot == <<"m", "o", "o", "n", "s", "h", "o", "t">>

DeepSeek == <<"d", "e", "e", "p", "s", "e", "e", "k">>

Google == <<"g", "o", "o", "g", "l", "e">>

\* model ids the claims name
Gpt4 ==
  <<"g", "p", "t", "-", "4">>

SomeRandomLlamaVariant ==
  <<"s", "o", "m", "e", "-", "r", "a", "n", "d", "o", "m", "-", "l", "l", "a", "m", "a", "-", "v", "a", "r", "i", "a", "n", "t">>

DeepseekR1DistillLlama70b ==
  <<"d", "e", "e", "p", "s", "e", "e", "k", "-", "r", "1", "-", "d", "i", "s", "t", "i", "l", "l", "-", "l", "l", "a", "m", "a", "-", "7", "0", "b">>

\* model ids that are in no catalog: "x", ids that match the fallbacks, one
\* that matches none, and ""
OtherIds ==
  {<<"x">>,
   SomeRandomLlamaVariant,
   <<"G", "P", "T", "-", "5">>,
   <<"G", "e", "m", "i", "n", "i", "-", "U", "l", "t", "r", "a">>,
   <<"k", "i", "m", "i", "-", "l", "a", "t", "e", "s", "t">>,
   <<"m", "y", "-", "d", "e", "e", "p", "s", "e", "e", "k", "-", "g", "p", "t">>,
   <<"M", "i", "x", "t", "r", "a", "l", "-", "n", "e", "w">>,
   <<"l", "l", "a", "m", "a", "-", "g", "e", "m", "i", "n", "i">>,
   <<"c", "l", "a", "u", "d", "e", "-", "3", "-", "o", "p", "u", "s">>,
   <<>>}

\* one entry of self.providers
Provider(id, base_url, api_key, models) ==
  [id |-> id, base_url |-> base_url, api_key |-> api_key, models |-> models]

\* MultiProviderConfig.__init__: the keys are read from the environment, and
\* self.providers is built in this order
MultiProviderConfig(env) ==
  [groq_api_key |-> getenv(env, "GROQ_API_KEY"),
   openai_api_key |-> getenv(env, "OPEN_AI_KEY"),
   google_api_key |-> getenv(env, "GOOGLE_API_KEY"),
   claude_api_key |-> getenv(env, "CLAUDE_API_KEY"),
   deepseek_api_key |-> getenv(env, "DEEPKEY_API_KEY"),
   providers |->
     <<Provider(Groq, Str(<<"https://api.groq.com/openai/v1">>),
                getenv(env, "GROQ_API_KEY"),
                {<<"l", "l", "a", "m", "a", "-", "3", ".", "3", "-", "7", "0", "b", "-", "v", "e", "r", "s", "a", "t", "i", "l", "e">>,
                 <<"l", "l", "a", "m", "a", "-", "3", ".", "1", "-", "7", "0", "b", "-", "v", "e", "r", "s", "a", "t", "i", "l", "e">>,
                 <<"l", "l", "a", "m", "a", "-", "3", ".", "1", "-", "8", "b", "-", "i", "n", "s", "t", "a", "n", "t">>,
                 <<"m", "i", "x", "t", "r", "a", "l", "-", "8", "x", "7", "b", "-", "3", "2", "7", "6", "8">>,
                 <<"g", "e", "m", "m", "a", "2", "-", "9", "b", "-", "i", "t">>}),
       Provider(OpenAI, Str(<<"https://api.openai.com/v1">>),
                getenv(env, "OPEN_AI_KEY"),
                {Gpt4,
                 <<"g", "p", "t", "-", "4", "-", "t", "u", "r", "b", "o">>,
                 <<"g", "p", "t", "-", "3", ".", "5", "-", "t", "u", "r", "b", "o">>}),
       Provider(Moonshot, Str(<<"https://api.moonshot.cn/v1">>),
                getenv(env, "OPEN_AI_KEY"),
                {<<"m", "o", "o", "n", "s", "h", "o", "t", "-", "v", "1", "-", "8", "k">>,
                 <<"m", "o", "o", "n", "s", "h", "o", "t", "-", "v", "1", "-", "3", "2", "k">>,
                 <<"m", "o", "o", "n", "s", "h", "o", "t", "-", "v", "1", "-", "1", "2", "8", "k">>,
                 <<"m", "o", "o", "n", "s", "h", "o", "t", "a", "i", "/", "k", "i", "m", "i", "-", "k", "2", "-", "i", "n", "s", "t", "r", "u", "c", "t">>}),
       Provider(DeepSeek, Str(<<"https://api.deepseek.com/v1">>),
                getenv(env, "DEEPKEY_API_KEY"),
                {<<"d", "e", "e", "p", "s", "e", "e", "k", "-", "c", "h", "a", "t">>,
                 <<"d", "e", "e", "p", "s", "e", "e", "k", "-", "c", "o", "d", "e", "r">>,
                 DeepseekR1DistillLlama70b}),
       Provider(Google, None,
                getenv(env, "GOOGLE_API_KEY"),
                {<<"g", "e", "m", "i", "n", "i", "-", "1", ".", "5", "-", "p", "r", "o">>,
                 <<"g", "e", "m", "i", "n", "i", "-", "1", ".", "5", "-", "f", "l", "a", "s", "h">>,
                 <<"g", "e", "m", "i", "n", "i", "-", "2", ".", "0", "-", "f", "l", "a", "s", "h", "-", "e", "x", "p">>,
                 <<"g", "e", "m", "i", "n", "i", "-", "2", ".", "5", "-", "p", "r", "o">>})>>]

\* the model ids of a call: those of the five catalogs and the others
ModelIds ==
  UNION {p.models : p \in Range(MultiProviderConfig(NoEnviron).providers)}
    \cup OtherIds


UpperCase == [a |-> "A", b |-> "B", c |-> "C", d |-> "D", e |-> "E", f |-> "F", g |-> "G", h |-> "H", i |-> "I", j |-> "J", k |-> "K", l |-> "L", m |-> "M", n |-> "N", o |-> "O", p |-> "P", q |-> "Q", r |-> "R", s |-> "S", t |-> "T", u |-> "U", v |-> "V", w |-> "W", x |-> "X", y |-> "Y", z |-> "Z"]

\* str.upper()
Upper(s) ==
  [i \in DOMAIN s |-> IF s[i] \in DOMAIN UpperCase THEN UpperCase[s[i]] ELSE s[i]]

\* the provider arguments of a call: None, the five ids of the registry, and
\* "x", "anthropic", "Google" and "", which are not in it
ProviderArgs ==
  {None, Str(Groq), Str(OpenAI), Str(Moonshot), Str(DeepSeek), Str(Google),
   Str(<<"x">>), Str(<<"a", "n", "t", "h", "r", "o", "p", "i", "c">>),
   Str(<<"G", "o", "o", "g", "l", "e">>), Str(<<>>)}

RECURSIVE CatalogScan(_, _)
\* for provider, config in self.providers.items(): the first provider whose
\* models hold model_name, None if the loop ends
CatalogScan(providers, model_name) ==
  IF providers = <<>> THEN None
  ELSE IF model_name \in Head(providers).models THEN Str(Head(providers).id)
  ELSE CatalogScan(Tail(providers), model_name)

\* the fallbacks on model_name.lower(), an if/elif chain
Fallback(lower) ==
  IF Contains(lower, <<"g", "e", "m", "i", "n", "i">>) THEN Google
  ELSE IF Contains(lower, <<"g", "p", "t">>) THEN OpenAI
  ELSE IF Contains(lower, <<"l", "l", "a", "m", "a">>)
            \/ Contains(lower, <<"m", "i", "x", "t", "r", "a", "l">>) THEN Groq
  ELSE IF Contains(lower, <<"m", "o", "o", "n", "s", "h", "o", "t">>)
            \/ Contains(lower, <<"k", "i", "m", "i">>) THEN Moonshot
  ELSE IF Contains(lower, <<"d", "e", "e", "p", "s", "e", "e", "k">>) THEN DeepSeek
  ELSE Groq

\* a detection that looks at the name only, not at the catalogs
detect_by_name(config, model_name) == Fallback(Lower(model_name))

\* MultiProviderConfig._detect_provider
detect_provider(config, model_name) ==
  IF ~CatalogScan(config.providers, model_name).none
  THEN CatalogScan(config.providers, model_name).chars
  ELSE Fallback(Lower(model_name))

\* a client whose model_info declares vision for every provider
ClientWithVision(model, api_key, base_url, vision) ==
  [type |-> "client", model |-> model, api_key |-> api_key,
   base_url |-> base_url, vision |-> TRUE, function_calling |-> TRUE,
   json_output |-> TRUE, structured_output |-> TRUE]

\* OpenAIChatCompletionClient(model, api_key, base_url, model_info)
Client(model, api_key, base_url, vision) ==
  [type |-> "client", model |-> model, api_key |-> api_key,
   base_url |-> base_url, vision |-> vision, function_calling |-> TRUE,
   json_output |-> TRUE, structured_output |-> TRUE]

\* raise exc(msg)
Raised(exc, msg) == [type |-> "raise", exc |-> exc, msg |-> msg]

ApiKeyNotFound ==
  <<"_", "A", "P", "I", "_", "K", "E", "Y", " ", "n", "o", "t", " ", "f", "o", "u", "n", "d", " ", "i", "n", " ", "e", "n", "v", "i", "r", "o", "n", "m", "e", "n", "t", " ", "v", "a", "r", "i", "a", "b", "l", "e", "s">>

\* a lookup that takes the first entry of the registry for an id it does not
\* hold
EntriesOrFirst(config, provider) ==
  IF \E p \in Range(config.providers) : p.id = provider
  THEN {p \in Range(config.providers) : p.id = provider}
  ELSE {Head(config.providers)}

\* self.providers[provider]: the entry under the key, none for a KeyError
Entries(config, provider) ==
  {p \in Range(config.providers) : p.id = provider}

\* a test that only None fails
IsNotNone(v) == ~v.none

\* the test of a key: not api_key
HasKey(v) == ~v.none /\ v.chars # <<>>

\* MultiProviderConfig._get_openai_compatible_client
get_openai_compatible_client(config, model_name, provider) ==
  IF Entries(config, provider) = {}
  THEN Raised("KeyError", <<"'">> \o provider \o <<"'">>)
  ELSE IF \E p \in Entries(config, provider) : ~HasKey(p.api_key)
  THEN Raised("ValueError", Upper(provider) \o ApiKeyNotFound)
  ELSE CHOOSE cl \in {Client(model_name, p.api_key, p.base_url, FALSE) :
                        p \in Entries(config, provider)} : TRUE

\* MultiProviderConfig._get_google_client
get_google_client(config, model_name) ==
  IF ~HasKey(config.google_api_key)
  THEN Raised("ValueError", Upper(Google) \o ApiKeyNotFound)
  ELSE Client(model_name, config.google_api_key,
              Str(<<"https://generativelanguage.googleapis.com/v1beta/openai/">>),
              TRUE)

\* the client of the provider chosen
client_of(config, model_name, provider) ==
  [provider |-> provider,
   outcome |-> IF provider = Google THEN get_google_client(config, model_name)
               ELSE get_openai_compatible_client(config, model_name, provider)]

\* a get_client that detects the provider whatever the caller names
get_client_detecting(config, model_name, provider) ==
  client_of(config, model_name, detect_provider(config, model_name))

\* MultiProviderConfig.get_client: [provider, outcome], the provider in use
\* after line 83 and what the call returns or raises
get_client(config, model_name, provider) ==
  client_of(config, model_name,
            IF provider.none THEN detect_provider(config, model_name)
            ELSE provider.chars)

\* create_agent: a MultiProviderConfig is made at each call, and its client
\* is the agent's model_client
create_agent(env, model, provider) ==
  get_client(MultiProviderConfig(env), model, provider)

NoResolution ==
  [model |-> <<>>, explicit |-> None, provider |-> <<>>,
   outcome |-> [type |-> "none"]]

-----------------------------------------------------------------------------
(* The calls *)

RECURSIVE LinksFrom(_, _, _)
\* the targets of the symbolic links that resolving segs from cur passes
LinksFrom(t, cur, segs) ==
  IF segs = <<>> THEN {}
  ELSE IF Head(segs) = ".." THEN LinksFrom(t, Parent(cur), Tail(segs))
  ELSE ({Follow(t, Append(cur, Head(segs)))} \ {Append(cur, Head(segs))})
       \cup LinksFrom(t, Follow(t, Append(cur, Head(segs))), Tail(segs))

NoProcess == [spawned |-> FALSE, exited |-> FALSE, rc |-> 0, out |-> <<>>]

\* what is recorded of a call: the method, the shape of its path argument
\* (and the create_dirs argument of a write_file),
\* where that path really leads in the tree the call found (real, and stat
\* for the kernel), the link targets on the way, the exception the try block
\* raised, the objects the call opened, created, listed or ran in, whether
\* the tree changed, and what became of the process of a run_command
Call(op, path, t, r, proc) ==
  [op |-> op,
   string |-> path.str,
   abs |-> path.abs,
   dotdot |-> ".." \in Range(path.segs),
   dot |-> "." \in Range(path.segs),
   real |-> Resolve(t, Join(path)),
   stat |-> Stat(t, Join(path)),
   via |-> LinksFrom(t, <<>>, Join(path)),
   exc |-> r.exc,
   io |-> r.io,
   changed |-> r.fs # t,
   create_dirs |-> FALSE,
   proc |-> proc]

NoCall ==
  [op |-> "none", string |-> FALSE, abs |-> FALSE, dotdot |-> FALSE,
   dot |-> FALSE, real |-> <<>>, stat |-> [ok |-> TRUE, at |-> <<>>],
   via |-> {}, exc |-> "", io |-> {}, changed |-> FALSE,
   create_dirs |-> FALSE, proc |-> NoProcess]

\* the texts write_file has stored at each path, in order, for the paths
\* whose file is still as the last write_file left it
StillWritten(w, t, u) ==
  [p \in {q \in DOMAIN w : q \in DOMAIN u /\ u[q] = t[q]} |-> w[p]]

\* one more text stored at the path at
Stored(w, at, text) ==
  at :> Append(IF at \in DOMAIN w THEN w[at] ELSE <<>>, text)

\* a caller may start a call when the result of the last one is consumed
Idle == call.op = "none" /\ ops < MaxOps

\* tools.read_file(file_path)
CallReadFile(file_path, fault) ==
  \E r \in {read_file(fs, file_path, fault)} :
    /\ result' = r.value
    /\ call' = Call("read_file", file_path, fs, r, NoProcess)
    /\ fs' = r.fs
    /\ written' = StillWritten(written, fs, r.fs)

\* tools.write_file(file_path, content, create_dirs)
CallWriteFile(file_path, content, create_dirs, fault) ==
  \E r \in {write_file(fs, file_path, content, create_dirs, fault)} :
    /\ result' = r.value
    /\ call' = [Call("write_file", file_path, fs, r, NoProcess)
                  EXCEPT !.create_dirs = create_dirs]
    /\ fs' = r.fs
    /\ written' =
         (IF r.value.success
          THEN Stored(written, Stat(r.fs, Join(file_path)).at, content.chars)
          ELSE <<>>) @@ StillWritten(written, fs, r.fs)

\* tools.list_files(directory, pattern, recursive)
CallListFiles(directory, pattern, recursive, fault) ==
  \E r \in {list_files(fs, directory, pattern, recursive, fault)} :
    /\ result' = r.value
    /\ call' = Call("list_files", directory, fs, r, NoProcess)
    /\ fs' = r.fs
    /\ written' = StillWritten(written, fs, r.fs)

\* the symbolic link /proj/lnk points to the sibling directory whose name
\* begins with the root's name, to a directory elsewhere, or to a directory
\* of the project
Init ==
  /\ \E target \in {<<"proj2">>, <<"out">>, workspace_dir} :
       fs = StartTree(target)
  /\ written = <<>>
  /\ procs = {}
  /\ call = NoCall
  /\ result = NoResult
  /\ ops = 0
  /\ environ = NoEnviron
  /\ resolution = NoResolution
  /\ threads = <<>>

ReadFile ==
  /\ Idle
  /\ \E file_path \in PathArgs, fault \in {"none", "open"} :
       CallReadFile(file_path, fault)
  /\ ops' = ops + 1
  /\ UNCHANGED <<procs, environ, resolution, threads>>

WriteFile ==
  /\ Idle
  /\ \E file_path \in PathArgs, content \in Contents, create_dirs \in BOOLEAN,
        fault \in {"none", "mkdir", "write"} :
       CallWriteFile(file_path, content, create_dirs, fault)
  /\ ops' = ops + 1
  /\ UNCHANGED <<procs, environ, resolution, threads>>

ListFiles ==
  /\ Idle
  /\ \E directory \in PathArgs, pattern \in Patterns, recursive \in BOOLEAN,
        fault \in {"none", "stat"} :
       CallListFiles(directory, pattern, recursive, fault)
  /\ ops' = ops + 1
  /\ UNCHANGED <<procs, environ, resolution, threads>>

RunCommand ==
  /\ Idle
  /\ \E command \in Commands, cwd \in PathArgs, timeout \in {1, 30} :
       \E r \in {run_command(fs, command, cwd, timeout)} :
           /\ result' = r.value
           /\ call' = Call("run_command", cwd, fs, r,
                            [spawned |-> r.spawned, exited |-> r.exited,
                             rc |-> r.rc, out |-> r.out])
           /\ fs' = r.fs
           /\ written' = StillWritten(written, fs, r.fs)
           /\ procs' = procs \cup r.left
  /\ ops' = ops + 1
  /\ UNCHANGED <<environ, resolution, threads>>

\* the caller consumes the result: results are not kept
Consume ==
  /\ call.op # "none"
  /\ call' = NoCall
  /\ result' = NoResult
  /\ UNCHANGED <<fs, written, procs, ops, environ, resolution, threads>>

Next == ReadFile \/ WriteFile \/ ListFiles \/ RunCommand \/ Consume

Spec == Init /\ [][Next]_vars

-----------------------------------------------------------------------------
(* A session of file calls: one caller works on a few files of the project *)
(* with read_file, write_file and list_files only, and nothing fails in    *)
(* the operating system                                                    *)

Relative(segs) == [str |-> TRUE, abs |-> FALSE, segs |-> segs]

\* a file of the root, files in directories that may be missing, a path
\* through a file, one through the link, and one to the sibling directory
SessionPaths ==
  {Relative(<<"f">>), Relative(<<"d", "f">>), Relative(<<"d", "d", "f">>),
   Relative(<<"f", "f">>), Relative(<<"lnk", "f">>),
   Relative(<<"..", "proj2", "f">>)}

SessionRead ==
  /\ call.op = "none" /\ ops < MaxSession
  /\ \E file_path \in SessionPaths : CallReadFile(file_path, "none")
  /\ ops' = ops + 1
  /\ UNCHANGED <<procs, environ, resolution, threads>>

SessionWrite ==
  /\ call.op = "none" /\ ops < MaxSession
  /\ \E file_path \in SessionPaths, content \in [str : {TRUE}, chars : SeqsUpTo({"x", "CR"}, 2)],
        create_dirs \in BOOLEAN :
       CallWriteFile(file_path, content, create_dirs, "none")
  /\ ops' = ops + 1
  /\ UNCHANGED <<procs, environ, resolution, threads>>

SessionList ==
  /\ call.op = "none" /\ ops < MaxSession
  /\ \E directory \in {Relative(<<".">>), Relative(<<"d">>)}, recursive \in BOOLEAN :
       CallListFiles(directory, Pattern(FALSE, <<"*">>), recursive, "none")
  /\ ops' = ops + 1
  /\ UNCHANGED <<procs, environ, resolution, threads>>

SessionNext == SessionRead \/ SessionWrite \/ SessionList \/ Consume

SpecSession == Init /\ [][SessionNext]_vars

\* the resolver: one create_agent call in each environment
InitResolver ==
  /\ fs = StartTree(workspace_dir)
  /\ written = <<>>
  /\ procs = {}
  /\ call = NoCall
  /\ result = NoResult
  /\ ops = 0
  /\ environ \in Environs
  /\ resolution = NoResolution
  /\ threads = <<>>

CreateAgent ==
  /\ ops < MaxResolutions
  /\ \E model \in ModelIds, provider \in ProviderArgs :
       \E r \in {create_agent(environ, model, provider)} :
           resolution' = [model |-> model, explicit |-> provider,
                          provider |-> r.provider, outcome |-> r.outcome]
  /\ ops' = ops + 1
  /\ UNCHANGED <<fs, written, procs, call, result, environ, threads>>

NextResolver == CreateAgent

SpecResolver == InitResolver /\ [][NextResolver]_vars

\* the process: create_agent calls, between which os.environ may be changed
InitProcess ==
  /\ fs = StartTree(workspace_dir)
  /\ written = <<>>
  /\ procs = {}
  /\ call = NoCall
  /\ result = NoResult
  /\ ops = 0
  /\ environ \in {env \in Environs : \A n \in EnvNames : env[n] # Str(<<>>)}
  /\ resolution = NoResolution
  /\ threads = <<>>

\* os.environ[name] = value (the key the variable has at first, another key
\* or ""), or del os.environ[name]: os.getenv reads os.environ as it is at
\* the call
Setenv ==
  /\ ops < MaxProcessSteps
  /\ \E name \in EnvNames :
       \E value \in {None, Str(<<>>), Str(KeyOf[name]), Str(<<"k", "0">>)} :
       /\ environ[name] # value
       /\ environ' = [environ EXCEPT ![name] = value]
  /\ ops' = ops + 1
  /\ UNCHANGED <<fs, written, procs, call, result, resolution, threads>>

ProcessCreateAgent ==
  /\ ops < MaxProcessSteps
  /\ \E model \in {Gpt4, SomeRandomLlamaVariant},
        provider \in {None, Str(Moonshot), Str(Google)} :
       \E r \in {create_agent(environ, model, provider)} :
           resolution' = [model |-> model, explicit |-> provider,
                          provider |-> r.provider, outcome |-> r.outcome]
  /\ ops' = ops + 1
  /\ UNCHANGED <<fs, written, procs, call, result, environ, threads>>

NextProcess == Setenv \/ ProcessCreateAgent

SpecProcess == InitProcess /\ [][NextProcess]_vars

\* threads that call read_file and write_file at the same time: each call
\* goes through its statements one at a time, and the statements of the
\* calls interleave
Thread(op, file_path, content) ==
  [op |-> op, file_path |-> file_path, content |-> content, pc |-> "call",
   at |-> <<>>, io |-> FALSE, success |-> FALSE]

InitThreads ==
  /\ fs = StartTree(workspace_dir)
  /\ written = <<>>
  /\ procs = {}
  /\ call = NoCall
  /\ result = NoResult
  /\ ops = 0
  /\ environ = NoEnviron
  /\ resolution = NoResolution
  /\ threads \in [1..MaxThreads ->
                    {Thread(op, Relative(segs), content) :
                       op \in {"read_file", "write_file"},
                       segs \in {<<"f">>, <<"workspace", "f">>},
                       content \in {<<"x">>, <<"x", "x">>, <<"LF">>}}]

\* full_path = self.project_root / file_path, and the security check (with
\* the existence check of read_file) on the tree as it is now
ThreadCheck(i) ==
  /\ threads[i].pc = "call"
  /\ threads' =
       [threads EXCEPT ![i].pc =
          IF ~StartsWithRoot(Resolve(fs, Join(threads[i].file_path)))
          THEN "done"
          ELSE IF threads[i].op = "read_file"
                    /\ ~PathExists(fs, Join(threads[i].file_path))
          THEN "done"
          ELSE "checked"]
  /\ UNCHANGED <<fs, written, procs, call, result, ops, environ, resolution>>

\* the open of read_text (with its read) and of write_text (after the mkdir
\* of the parents): the kernel walks the path in the tree as it is now, and
\* mode 'w' truncates the file
ThreadOpen(i) ==
  /\ threads[i].pc = "checked"
  /\ \E st \in {Stat(fs, Join(threads[i].file_path))} :
       IF threads[i].op = "read_file"
       THEN /\ threads' = [threads EXCEPT ![i].pc = "done", ![i].at = st.at,
                                          ![i].io = IsFileAt(fs, st.at),
                                          ![i].success = IsFileAt(fs, st.at)]
            /\ fs' = fs
       ELSE \E r \in {write_file_write(
                        fs, make_parents(fs, threads[i].file_path, TRUE),
                        threads[i].file_path, [str |-> TRUE, chars |-> <<>>],
                        "none")} :
              /\ threads' = [threads EXCEPT
                               ![i].pc = IF r.exc = "" THEN "opened" ELSE "done",
                               ![i].at = Stat(r.fs, Join(threads[i].file_path)).at,
                               ![i].io = (r.exc = "")]
              /\ fs' = r.fs
  /\ UNCHANGED <<written, procs, call, result, ops, environ, resolution>>

\* the bytes data written at offset 0 of a file that holds old
Overwrite(old, data) ==
  data \o SubSeq(old, Len(data) + 1, Len(old))

\* the write of the encoded content when the file is closed, at the offset
\* of this open (0), and the return of write_file; the bytes of a file that
\* has been unlinked since are lost
ThreadWrite(i) ==
  /\ threads[i].pc = "opened"
  /\ fs' = IF IsFileAt(fs, threads[i].at)
           THEN [fs EXCEPT ![threads[i].at].data =
                   Overwrite(@, Encode(threads[i].content))]
           ELSE fs
  /\ threads' = [threads EXCEPT ![i].pc = "done", ![i].success = TRUE]
  /\ UNCHANGED <<written, procs, call, result, ops, environ, resolution>>

\* a command run at the same time (rm -r workspace; ln -s /out workspace)
\* puts a symbolic link to a directory outside the root in the place of a
\* directory of the project
Swap ==
  /\ IsDirAt(fs, workspace_dir)
  /\ fs' = (workspace_dir :> Link(<<"out">>))
             @@ [p \in {q \in DOMAIN fs : ~IsPrefix(workspace_dir, q)} |-> fs[p]]
  /\ UNCHANGED <<written, procs, call, result, ops, environ, resolution, threads>>

NextThreads ==
  \/ \E i \in 1..MaxThreads : ThreadCheck(i) \/ ThreadOpen(i) \/ ThreadWrite(i)
  \/ Swap

SpecThreads == InitThreads /\ [][NextThreads]_vars

\* run_command as the caller lives it: the call starts, the clock runs while
\* subprocess.run waits in communicate(timeout=timeout), and the call
\* returns when the shell has ended or when the timeout has expired.
\* the statements before subprocess.run, and the spawn; a call that spawns
\* nothing returns at once
CommandStart ==
  /\ threads = <<>> /\ call.op = "none"
  /\ \E command \in Commands, timeout \in {1, 30},
        cwd \in {Relative(<<>>), Relative(<<"workspace">>), Relative(<<"..">>)} :
       \E r \in {run_command(fs, command, cwd, timeout)} :
         /\ threads' =
              <<[op |-> "run_command", command |-> command,
                 timeout |-> timeout, elapsed |-> 0, r |-> r,
                 pc |-> IF r.spawned THEN "waiting" ELSE "returned",
                 secs |-> IF r.spawned
                          THEN Shell(fs,
                                     Stat(fs, IF Truthy(cwd) THEN Join(cwd)
                                              ELSE project_root).at,
                                     command.text).secs
                          ELSE 0]>>
         /\ IF r.spawned
            THEN UNCHANGED <<call, result>>
            ELSE /\ result' = r.value
                 /\ call' = Call("run_command", cwd, fs, r, NoProcess)
  /\ UNCHANGED <<fs, written, procs, ops, environ, resolution>>

\* one second passes while the shell runs and the timeout has not expired
Tick ==
  /\ threads # <<>> /\ threads[1].pc = "waiting"
  /\ threads[1].elapsed < threads[1].secs
  /\ threads[1].elapsed < threads[1].timeout
  /\ threads' = [threads EXCEPT ![1].elapsed = @ + 1]
  /\ UNCHANGED <<fs, written, procs, call, result, ops, environ, resolution>>

\* a wait that no timeout ends
NeverExpired(elapsed, timeout) == FALSE

\* communicate(timeout=timeout): the timeout has expired
Expired(elapsed, timeout) == elapsed >= timeout

\* subprocess.run returns when the shell has ended before the timeout, or
\* when the timeout has expired: it then kills the shell, waits for it and
\* raises TimeoutExpired, which run_command turns into its result
CommandReturn ==
  /\ threads # <<>> /\ threads[1].pc = "waiting"
  /\ \/ /\ threads[1].secs < threads[1].timeout
        /\ threads[1].elapsed >= threads[1].secs
     \/ /\ threads[1].secs >= threads[1].timeout
        /\ Expired(threads[1].elapsed, threads[1].timeout)
  /\ threads' = [threads EXCEPT ![1].pc = "returned"]
  /\ result' = threads[1].r.value
  /\ call' = [NoCall EXCEPT !.op = "run_command", !.exc = threads[1].r.exc]
  /\ fs' = threads[1].r.fs
  /\ procs' = procs \cup threads[1].r.left
  /\ UNCHANGED <<written, ops, environ, resolution>>

NextCommand == CommandStart \/ Tick \/ CommandReturn

\* time passes, and a process that has ended or been killed is reaped
SpecCommand ==
  /\ Init /\ [][NextCommand]_vars
  /\ WF_vars(Tick) /\ WF_vars(CommandReturn)

-----------------------------------------------------------------------------
(* The tool wrappers of create_file_tools: the string each returns for the *)
(* result of the method it calls                                           *)

read_file_tool(r) ==
  IF r.success THEN Text("File: ", "file_path, content")
  ELSE Text("Error reading ", "file_path, error")

write_file_tool(r) ==
  IF r.success THEN Text("OK ", "message")
  ELSE Text("Error writing ", "file_path, error")

RECURSIVE Listed(_)
\* files = result["files"]: the entries as a list, in some order
Listed(entries) ==
  IF entries = {} THEN <<>>
  ELSE <<CHOOSE e \in entries : TRUE>>
         \o Listed(entries \ {CHOOSE e \in entries : TRUE})

\* a wrapper that displays every entry
Whole(files) == files

\* files[:20]
First20(files) == SubSeq(files, 1, IF Len(files) < 20 THEN Len(files) ELSE 20)

\* the header with the count, a line for each of the first 20 entries of the
\* list files, and the line of the entries left, if any
list_files_tool(r, files) ==
  IF r.success
  THEN [msg |-> "Directory: ", arg |-> "directory, pattern, count, files",
        count |-> r.count,
        lines |-> [i \in DOMAIN First20(files) |->
                     [icon |-> IF First20(files)[i].is_file THEN "file"
                               ELSE "dir",
                      path |-> First20(files)[i].path,
                      size |-> IF First20(files)[i].is_file
                               THEN <<First20(files)[i].size>> ELSE <<>>]],
        more |-> IF Len(files) > 20 THEN <<Len(files) - 20>> ELSE <<>>]
  ELSE Text("Error listing files: ", "error")

run_command_tool(r) ==
  Text("Command: ", "command, cwd, success, return_code, stdout, stderr")

\* what the wrapper of the last call returns; an exception leaving the
\* method leaves the wrapper too
ToolOutput ==
  IF result.type = "raise" THEN result
  ELSE CASE call.op = "read_file" -> read_file_tool(result)
         [] call.op = "write_file" -> write_file_tool(result)
         [] call.op = "list_files"
              -> list_files_tool(result, IF result.success
                                         THEN Listed(result.files) ELSE <<>>)
         [] call.op = "run_command" -> run_command_tool(result)
         [] OTHER -> NoError

\* a project root with up to MaxEntries objects, every k-th a directory and
\* the others files
InitListing ==
  /\ \E n \in 0..MaxEntries, k \in 1..4 :
       fs = (<<>> :> Dir) @@ (project_root :> Dir)
            @@ [p \in {Append(project_root, ToString(i)) : i \in 1..n}
                  |-> IF \E i \in 1..n : p = Append(project_root, ToString(i))
                                           /\ i % k = 0
                      THEN Dir ELSE File(<<"x">>)]
  /\ written = <<>>
  /\ procs = {}
  /\ call = NoCall
  /\ result = NoResult
  /\ ops = 0
  /\ environ = NoEnviron
  /\ resolution = NoResolution
  /\ threads = <<>>

\* the list_files tool: the call of project_tools.list_files and the string
\* made of its result; the directory gives its entries in some order, here
\* the list turned by some number of places
ListFilesTool ==
  /\ threads = <<>>
  /\ \E recursive \in BOOLEAN, first \in 0..MaxEntries :
       \E r \in {list_files(fs, Relative(<<>>), Pattern(FALSE, <<"*">>),
                            recursive, "none")} :
         /\ r.value.success
         /\ first = 0 \/ first < r.value.count
         /\ result' = r.value
         /\ call' = Call("list_files", Relative(<<>>), fs, r, NoProcess)
         /\ \E files \in {Listed(r.value.files)} :
              threads' =
                <<[op |-> "list_files_tool", pc |-> "returned",
                   output |->
                     list_files_tool(
                       r.value,
                       [i \in DOMAIN files |->
                          files[((i + first - 1) % Len(files)) + 1]])]>>
  /\ UNCHANGED <<fs, written, procs, ops, environ, resolution>>

NextListing == ListFilesTool

SpecListing == InitListing /\ [][NextListing]_vars

-----------------------------------------------------------------------------
(* Properties *)

Called == call.op # "none"

\* the error text of the last result: stderr for run_command
ErrorOf == IF call.op = "run_command" THEN result.stderr ELSE result.error

\* the last call was refused by the path check
Denied ==
  /\ Called
  /\ result.type # "raise"
  /\ ~result.success
  /\ ErrorOf.msg \in {"Access denied: Path outside project root: ",
                      "Access denied: Working directory outside project root: "}

\* the path given to the last call is a string that leads outside the root
Escapes == Called /\ call.string /\ ~Inside(call.real)

\* the last call did nothing to the tree or to processes
NoEffect == call.io = {} /\ ~call.changed /\ ~call.proc.spawned

\* C1: a path whose canonical resolution is neither the project root nor
\* below it is refused with 'Access denied' by read_file, write_file,
\* list_files and run_command (cwd), and then nothing is read, written,
\* listed or spawned; this includes a sibling directory whose name begins
\* with the root's name.
C1_EscapeRefused == Escapes => (Denied /\ NoEffect)

\* C2: a relative path whose canonical resolution is the root or lies below
\* it, with or without "." and ".." segments, is never refused by the path
\* check, and the object the call then works on is the root or below it.
C2_InsideAccepted ==
  (Called /\ call.string /\ ~call.abs /\ Inside(call.real))
    => (~Denied /\ (call.stat.ok => Inside(call.stat.at)))

\* a call with a relative path that goes through a link and back by ".."
\* and ends inside the root succeeded
C2_Witness ==
  /\ Called /\ call.string /\ ~call.abs /\ call.dotdot /\ call.via # {}
  /\ Inside(call.real)
  /\ result.success /\ call.io # {}

\* C3: a path that passes through a symbolic link whose target is outside
\* the project root, and so leads outside, is refused with 'Access denied'
\* and no I/O is done on the link's target.
C3_LinkEscapeRefused ==
  (Escapes /\ \E target \in call.via : ~Inside(target)) => (Denied /\ NoEffect)

\* C4: run_command checks the cwd first, then the denylist, then spawns: an
\* escaping cwd gives success=false, return_code=-1 and an access-denied
\* stderr whatever the command is, with no process; a process is spawned
\* only when the cwd check and the denylist check both pass.
C4_CwdThenDenylistThenSpawn ==
  (call.op = "run_command")
    => /\ Escapes => (/\ Denied
                      /\ result.return_code = -1
                      /\ ~call.proc.spawned)
       /\ call.proc.spawned =>
            (/\ ~Escapes
             /\ ~\E d \in dangerous_commands :
                   Contains(Lower(result.command.text), d))

\* the five substrings the denylist is said to hold
C5_Substrings ==
  {<<"r", "m", " ", "-", "r", "f">>, <<"f", "o", "r", "m", "a", "t">>,
   <<"d", "e", "l", " ", "/", "f">>, <<"s", "u", "d", "o", " ", "r", "m">>,
   <<"c", "h", "m", "o", "d", " ", "7", "7", "7">>}

\* the last result is the 'dangerous command blocked' one
Blocked ==
  /\ call.op = "run_command"
  /\ ~result.success
  /\ result.stderr.msg = "Potentially dangerous command blocked: "

\* C5: with a cwd inside the root, run_command blocks a command if and only
\* if its lower-cased text contains one of the five substrings, and a blocked
\* command has success=false, return_code=-1, empty stdout, no process and
\* no change of the tree.
C5_BlockedIffListed ==
  (call.op = "run_command" /\ Inside(call.real) /\ result.command.str)
    => /\ Blocked <=> \E d \in C5_Substrings :
                        Contains(Lower(result.command.text), d)
       /\ Blocked => (/\ result.return_code = -1
                      /\ result.stdout = <<>>
                      /\ NoEffect)

\* an upper-case 'RM -RF' was blocked in a cwd inside the root
C5_Witness ==
  /\ call.op = "run_command" /\ Inside(call.real)
  /\ result.command.str /\ result.command.text = RmRfUpper
  /\ Blocked

\* the last result is the 'timed out' one
TimedOut ==
  /\ call.op = "run_command"
  /\ result.stderr.msg = "Command timed out after "

\* C6: when the command does not finish within the timeout, run_command
\* returns success=false, return_code=-1 and a stderr that states the
\* timeout, and no process started for the command is still running.
C6_TimeoutLeavesNoProcess ==
  TimedOut => (~result.success /\ result.return_code = -1 /\ procs = {})

\* C7: return_code -1 means 'never ran': a command that was spawned and ran
\* to its end has a return_code other than -1.
C7_MinusOneMeansNeverRan ==
  (call.op = "run_command" /\ call.proc.exited) => result.return_code # -1

\* C8: every CommandResult has success = (return_code = 0); a command that
\* ran and exited 0 gives success=true, return_code=0 and its stdout ('echo
\* hi' gives a stdout containing 'hi'); one that exited non-zero gives
\* success=false with its exit code; a blocked, escaped, timed-out or errored
\* call gives success=false.
C8_SuccessIffZero ==
  (call.op = "run_command")
    => /\ result.success = (result.return_code = 0)
       /\ (call.proc.exited /\ call.proc.rc = 0)
            => (/\ result.success
                /\ result.return_code = 0
                /\ result.stdout = Decode(call.proc.out))
       /\ (call.proc.exited /\ call.proc.rc # 0)
            => (~result.success /\ result.return_code = call.proc.rc)
       /\ (call.proc.exited /\ result.command.text = EchoHi)
            => Contains(result.stdout, <<"h", "i">>)
       /\ ~call.proc.exited => ~result.success

\* C9: read_file, write_file, list_files, run_command and their wrappers
\* never raise: whatever the arguments and the fault, a result is returned,
\* and when the call failed on a bad argument or a fault the result has
\* success=false and an error text that is not empty.
C9_NeverRaises ==
  Called
    => /\ result.type # "raise"
       /\ ToolOutput.msg # ""
       /\ call.exc # "" => (~result.success /\ ErrorOf.msg # "")
       /\ (~result.success /\ ~call.proc.exited) => ErrorOf.msg # ""

\* a method's try block raised and the call returned a failure
C9_Witness ==
  /\ Called /\ call.exc \in {"TypeError", "OSError", "UnicodeDecodeError"}
  /\ result.type # "raise" /\ ~result.success

\* C10: after a successful write_file of a text to a path, with no other
\* write to it since, read_file of that path returns success with exactly
\* that text.
C10_RoundTrip ==
  (/\ call.op = "read_file"
   /\ call.string
   /\ call.stat.ok
   /\ call.stat.at \in DOMAIN written
   /\ call.exc # "OSError")
    => (result.success /\ result.content = Last(written[call.stat.at]))

\* C11: after two or more successful write_file calls on one path, with no
\* other change of the file since, read_file of that path returns success
\* with the text of the last write only.
C11_LastWriteOnly ==
  (/\ call.op = "read_file"
   /\ call.string
   /\ call.stat.ok
   /\ call.stat.at \in DOMAIN written
   /\ Len(written[call.stat.at]) >= 2)
    => (result.success /\ result.content = Last(written[call.stat.at]))

\* a write_file step: the caller was idle and the call is a write_file with
\* a path that leads into the root
WriteStep ==
  call.op = "none" /\ call'.op = "write_file" /\ call'.string
    /\ Inside(call'.real)

\* the components of the path are directories as far as they exist, and
\* the target is not a directory
Writable ==
  \/ call'.stat.ok /\ ~IsDirAt(fs, call'.stat.at)
  \/ ~call'.stat.ok /\ ~Exists(fs, call'.stat.at)

\* the file at is there with every directory above it
FileWithAncestors(t, at) ==
  IsFileAt(t, at) /\ \A k \in 0..(Len(at) - 1) : IsDirAt(t, SubSeq(at, 1, k))

\* C12: write_file with create_dirs=true succeeds whether the ancestor
\* directories of the target exist or are missing, and then the file is
\* there with every ancestor directory; with create_dirs=false and a missing
\* parent directory it returns success=false and the tree is as before.
C12_CreateDirs ==
  [][WriteStep =>
       /\ (call'.create_dirs /\ Writable)
            => (/\ result'.success
                /\ \E at \in call'.io : FileWithAncestors(fs', at))
       /\ (~call'.create_dirs /\ ~call'.stat.ok)
            => (~result'.success /\ fs' = fs)]_vars

\* a write_file with create_dirs=true has made two directories and the file
C12_Witness ==
  /\ call.op = "write_file" /\ call.create_dirs /\ Inside(call.real)
  /\ result.success
  /\ Cardinality({p \in call.io : IsDirAt(fs, p)}) >= 2
  /\ \E at \in call.io : FileWithAncestors(fs, at)

\* the path of the last call names an object that exists
Found == call.stat.ok /\ Exists(fs, call.stat.at)

\* C13: read_file of a string path, when the operating system does not
\* fail: 'Access denied' if the path leads outside the root, whether or not
\* the target exists; otherwise 'File not found' if the path does not
\* exist; otherwise a decode error if the file's bytes are not UTF-8;
\* otherwise success with the file's contents; content is empty in every
\* failure.
C13_ReadPrecedence ==
  (call.op = "read_file" /\ call.string /\ call.exc # "OSError")
    => /\ Escapes => Denied
       /\ (~Escapes /\ ~Found)
            => (~result.success /\ result.error.msg = "File not found: ")
       /\ (~Escapes /\ Found /\ IsFileAt(fs, call.stat.at))
            => IF Decodable(fs[call.stat.at].data)
               THEN result.success /\ result.content = fs[call.stat.at].data
               ELSE ~result.success /\ call.exc = "UnicodeDecodeError"
                      /\ result.error.msg = "Error reading file "
       /\ ~result.success => result.content = <<>>

\* C14: list_files of a string directory that leads into the root and does
\* not exist returns success=false with the error 'Directory not found'
\* naming the directory, whatever the pattern and recursive are, and lists
\* nothing.
C14_ListNotFound ==
  (call.op = "list_files" /\ call.string /\ Inside(call.real) /\ ~Found)
    => /\ ~result.success
       /\ result.error = Text("Directory not found: ", "directory")
       /\ "files" \notin DOMAIN result
       /\ call.io = {}

\* a missing directory below the root was refused as not found
C14_Witness ==
  /\ call.op = "list_files" /\ call.string /\ Inside(call.real)
  /\ call.real # project_root /\ ~Exists(fs, call.real)
  /\ ~result.success /\ result.error.msg = "Directory not found: "

\* where the entry with the relative path path lies in the tree t: its
\* directory as the kernel reaches it from the root, and its name
Location(t, path) ==
  Append(Stat(t, project_root \o Front(path)).at, Last(path))

\* the objects under the directory at: every descendant, or the children
Under(t, at, recursive) ==
  IF recursive THEN {p \in DOMAIN t : IsPrefix(at, p) /\ p # at}
  ELSE Children(t, at)

\* a name matches a pattern of one part: "*" matches every name
Matches(name, pattern) ==
  /\ ~pattern.abs
  /\ Len(pattern.parts) = 1
  /\ pattern.parts[1] \in {"*", name}

\* C15: in every successful list_files result, files has exactly one entry
\* for each object under the directory whose name matches the pattern (all
\* descendants with recursive=true, the children otherwise), each under its
\* path relative to the project root, and count is the number of entries.
C15_ListComplete ==
  (call.op = "list_files" /\ result.success)
    => /\ \A e \in result.files : e.path # <<>>
       /\ {Location(fs, e.path) : e \in result.files}
            = {p \in Under(fs, call.stat.at, result.recursive) :
                 Matches(Last(p), result.pattern)}
       /\ \A e1, e2 \in result.files :
            (Location(fs, e1.path) = Location(fs, e2.path)) => (e1 = e2)
       /\ result.count = Cardinality(result.files)

\* the paths at which the trees t and u differ
Changed(t, u) ==
  {p \in DOMAIN t \cup DOMAIN u :
     p \notin DOMAIN t \/ p \notin DOMAIN u \/ t[p] # u[p]}

\* the target file of a write and those of its ancestors missing in t
TargetAndMissingAncestors(t, target) ==
  {target} \cup ({SubSeq(target, 1, k) : k \in 0..(Len(target) - 1)} \ DOMAIN t)

\* a step that makes a call of the operation op
Calls(op) == call.op = "none" /\ call'.op = op

\* C16: read_file and list_files leave the filesystem as it is; a write_file
\* call changes at most its target file and the ancestor directories that
\* were missing; in every sequence of the three calls, nothing outside the
\* project root is changed.
C16_Frame ==
  [][/\ (Calls("read_file") \/ Calls("list_files")) => fs' = fs
     /\ Calls("write_file")
          => Changed(fs, fs') \subseteq
               TargetAndMissingAncestors(fs, call'.real)
     /\ \A p \in Changed(fs, fs') : Inside(p)]_vars

\* a create_agent call has been made, with or without a provider argument
Resolved == resolution.outcome.type # "none"

Explicit == Resolved /\ ~resolution.explicit.none

Registry == <<Groq, OpenAI, Moonshot, DeepSeek, Google>>

\* the endpoint a provider's clients talk to
Endpoint(id) ==
  CASE id = Groq -> <<"https://api.groq.com/openai/v1">>
    [] id = OpenAI -> <<"https://api.openai.com/v1">>
    [] id = Moonshot -> <<"https://api.moonshot.cn/v1">>
    [] id = DeepSeek -> <<"https://api.deepseek.com/v1">>
    [] id = Google -> <<"https://generativelanguage.googleapis.com/v1beta/openai/">>

\* the credential of a provider in the environment env
Credential(env, id) ==
  CASE id = Groq -> env["GROQ_API_KEY"]
    [] id = OpenAI -> env["OPEN_AI_KEY"]
    [] id = Moonshot -> env["OPEN_AI_KEY"]
    [] id = DeepSeek -> env["DEEPKEY_API_KEY"]
    [] id = Google -> env["GOOGLE_API_KEY"]

\* C17: with an explicit provider, get_client uses that provider whatever
\* the model id is (in another provider's catalog, in none, matching another
\* rule), and the client it makes has that provider's endpoint and
\* credential and the model id as given.
C17_ExplicitProvider ==
  Explicit
    => /\ resolution.provider = resolution.explicit.chars
       /\ resolution.outcome.type = "client"
            => /\ resolution.outcome.model = resolution.model
               /\ resolution.outcome.base_url.chars = Endpoint(resolution.provider)
               /\ resolution.outcome.api_key
                    = Credential(environ, resolution.provider)

C17_Witness ==
  /\ resolution.model = Gpt4 /\ resolution.explicit = Str(Groq)
  /\ resolution.outcome.type = "client"
  /\ resolution.outcome.model = Gpt4
  /\ resolution.outcome.base_url.chars = Endpoint(Groq)

\* the catalog of the i-th provider of the registry
Catalog(i) == MultiProviderConfig(NoEnviron).providers[i].models

\* the substring rules, in order
Rules ==
  <<[words |-> {<<"g", "e", "m", "i", "n", "i">>}, id |-> Google],
    [words |-> {<<"g", "p", "t">>}, id |-> OpenAI],
    [words |-> {<<"l", "l", "a", "m", "a">>,
                <<"m", "i", "x", "t", "r", "a", "l">>}, id |-> Groq],
    [words |-> {<<"m", "o", "o", "n", "s", "h", "o", "t">>,
                <<"k", "i", "m", "i">>}, id |-> Moonshot],
    [words |-> {<<"d", "e", "e", "p", "s", "e", "e", "k">>}, id |-> DeepSeek]>>

Applies(rule, model) == \E w \in rule.words : Contains(Lower(model), w)

\* the provider the rules of selection give for a model id
Expected(model) ==
  IF \E i \in DOMAIN Registry : model \in Catalog(i)
  THEN Registry[CHOOSE i \in DOMAIN Registry :
                  /\ model \in Catalog(i)
                  /\ \A j \in 1..(i - 1) : model \notin Catalog(j)]
  ELSE IF \E i \in DOMAIN Rules : Applies(Rules[i], model)
  THEN Rules[CHOOSE i \in DOMAIN Rules :
               /\ Applies(Rules[i], model)
               /\ \A j \in 1..(i - 1) : ~Applies(Rules[j], model)].id
  ELSE Groq

\* C18: with no explicit provider, the provider selected is the first of the
\* registry whose catalog holds the model id, else the one of the first
\* substring rule that applies to the lower-cased id, else groq: 'gpt-4'
\* gives openai, 'some-random-llama-variant' groq, in every environment.
C18_Detection ==
  (Resolved /\ resolution.explicit.none)
    => /\ resolution.provider = Expected(resolution.model)
       /\ resolution.model = Gpt4 => resolution.provider = OpenAI
       /\ resolution.model = SomeRandomLlamaVariant
            => resolution.provider = Groq

C18_Witness ==
  /\ Resolved /\ resolution.explicit.none
  /\ resolution.model = DeepseekR1DistillLlama70b
  /\ resolution.provider = DeepSeek
  /\ resolution.outcome.type = "client"

\* C19: when the credential of the provider selected is absent or empty, the
\* resolution raises the missing-credential error; a client never holds an
\* empty credential, nor the credential of another provider.
C19_MissingCredential ==
  (Resolved /\ resolution.provider \in Range(Registry))
    => /\ (\/ Credential(environ, resolution.provider).none
           \/ Credential(environ, resolution.provider).chars = <<>>)
            => /\ resolution.outcome.type = "raise"
               /\ resolution.outcome.exc = "ValueError"
       /\ resolution.outcome.type = "client"
            => /\ ~resolution.outcome.api_key.none
               /\ resolution.outcome.api_key.chars # <<>>
               /\ resolution.outcome.api_key
                    = Credential(environ, resolution.provider)

C19_Witness ==
  /\ Resolved /\ resolution.provider = OpenAI
  /\ environ["OPEN_AI_KEY"] = Str(<<>>)
  /\ environ["GROQ_API_KEY"] = Str(KeyOf["GROQ_API_KEY"])
  /\ resolution.outcome.type = "raise"
  /\ resolution.outcome.exc = "ValueError"

\* C20: an explicit provider id that is not in the registry makes the
\* resolution fail with an error that names the id, whatever keys are set:
\* no client is made, for the default provider or for a detected one.
C20_UnknownProvider ==
  (Explicit /\ resolution.explicit.chars \notin Range(Registry))
    => /\ resolution.outcome.type = "raise"
       /\ resolution.outcome.exc = "KeyError"
       /\ resolution.outcome.msg
            = <<"'">> \o resolution.explicit.chars \o <<"'">>

C20_Witness ==
  /\ Explicit /\ resolution.explicit = Str(<<"x">>)
  /\ resolution.model = Gpt4
  /\ \A n \in EnvNames : environ[n] = Str(KeyOf[n])
  /\ resolution.outcome.type = "raise"
  /\ resolution.outcome.exc = "KeyError"

\* C21: two resolutions of the same model and provider argument made through
\* create_agent in one process give clients with the same base URL and the
\* same credential, whatever has been done to the environment between them.
C21_StaticRegistry ==
  [][(/\ resolution.outcome.type = "client"
      /\ resolution'.outcome.type = "client"
      /\ resolution'.model = resolution.model
      /\ resolution'.explicit = resolution.explicit)
       => /\ resolution'.outcome.base_url = resolution.outcome.base_url
          /\ resolution'.outcome.api_key = resolution.outcome.api_key]_vars

\* the texts run_command makes for its own failures
FailureTexts ==
  {"Access denied: Working directory outside project root: ",
   "Potentially dangerous command blocked: ", "Command timed out after ",
   "Error executing command: "}

\* C22: every failure text includes the offending input: the path supplied
\* for read_file, write_file and list_files, the command or the cwd for the
\* failures of run_command (escaped cwd, blocked command, timeout, spawn
\* error: the text of the error of a spawn names the working directory), and
\* the model id for the failures of the resolver.
C22_DescriptiveFailures ==
  /\ (call.op \in {"read_file", "write_file"} /\ ~result.success)
       => result.error.arg \in {"file_path", "file_path, e"}
  /\ (call.op = "list_files" /\ ~result.success)
       => result.error.arg \in {"directory", "directory, e"}
  /\ (call.op = "run_command" /\ result.stderr.msg \in FailureTexts)
       => \/ result.stderr.arg \in {"cwd", "command"}
          \/ result.stderr.arg = "e" /\ call.exc = "FileNotFoundError"
  /\ resolution.outcome.type = "raise"
       => Contains(resolution.outcome.msg, resolution.model)

\* the threads that have written to the file at, all successfully
Writers(at) ==
  {i \in DOMAIN threads : threads[i].op = "write_file" /\ threads[i].at = at}

\* C23: when two writers of one path with contents A and B have both
\* returned success, a read_file of the path returns exactly A or exactly
\* B: no mixture of the two, no truncated value, no empty file.
C23_LastWriterWins ==
  \A at \in {<<"proj", "f">>} :
    (/\ \A i \in DOMAIN threads : threads[i].pc = "done"
     /\ Cardinality(Writers(at)) >= 2
     /\ \A i \in Writers(at) : threads[i].success)
      => \E i \in Writers(at) :
           read_file(fs, Relative(<<"f">>), "none").value
             = FileReadResult(TRUE, threads[i].content, NoError)

\* C25: the object on which a call performs its I/O lies inside the project
\* root, whatever changes the tree between its statements.
C25_ConfinedUnderRaces ==
  \A i \in DOMAIN threads : threads[i].io => Inside(threads[i].at)

\* C24: every run_command call returns: the caller waits no longer than the
\* timeout, and a call that is waiting for its command always reaches the
\* returned state, by the end of the command or by the timeout.
C24_AlwaysReturns ==
  /\ [](\A i \in DOMAIN threads :
          threads[i].pc = "waiting" => threads[i].elapsed <= threads[i].timeout)
  /\ \A command \in Commands :
       (threads # <<>> /\ threads[1].pc = "waiting"
          /\ threads[1].command = command)
         ~> (threads # <<>> /\ threads[1].pc = "returned"
               /\ threads[1].command = command
               /\ result.type = "CommandResult")

C24_Witness ==
  /\ threads # <<>> /\ threads[1].pc = "returned"
  /\ threads[1].command.text = Sleep99Echo
  /\ threads[1].elapsed = threads[1].timeout
  /\ result.type = "CommandResult" /\ ~result.success
  /\ result.stderr.msg = "Command timed out after "

\* C26: a write_file call that returns success=false leaves the filesystem
\* as it was before the call: it has created no ancestor directory, and an
\* existing target file keeps its content.
C26_FailedWriteLeavesNoTrace ==
  (call.op = "write_file" /\ ~result.success) => ~call.changed

\* C27: every entry of a successful list_files result designates an object
\* located inside the listed directory, hence inside the project root, for
\* every glob pattern, also one with ".." parts or an absolute one.
C27_PatternConfined ==
  (call.op = "list_files" /\ result.success)
    => \A e \in result.files :
         /\ e.path # <<>>
         /\ IsPrefix(call.stat.at, Location(fs, e.path))
         /\ Location(fs, e.path) # call.stat.at
         /\ Inside(Location(fs, e.path))

\* C28: a client is built from the registry entry of the provider selected:
\* its credential is the entry's credential and its base URL the entry's
\* fixed URL (the Google endpoint for google); function_calling, json_output
\* and structured_output are true for every provider, and vision is true
\* exactly for google.
C28_ClientFromEntry ==
  resolution.outcome.type = "client"
    => /\ \E p \in Range(MultiProviderConfig(environ).providers) :
            /\ p.id = resolution.provider
            /\ resolution.outcome.api_key = p.api_key
            /\ resolution.provider # Google
                 => resolution.outcome.base_url = p.base_url
       /\ resolution.provider = Groq
            => resolution.outcome.base_url = Str(<<"https://api.groq.com/openai/v1">>)
       /\ resolution.provider = DeepSeek
            => resolution.outcome.base_url = Str(<<"https://api.deepseek.com/v1">>)
       /\ resolution.provider = Moonshot
            => resolution.outcome.base_url = Str(<<"https://api.moonshot.cn/v1">>)
       /\ resolution.provider = Google
            => resolution.outcome.base_url
                 = Str(<<"https://generativelanguage.googleapis.com/v1beta/openai/">>)
       /\ resolution.outcome.function_calling
       /\ resolution.outcome.json_output
       /\ resolution.outcome.structured_output
       /\ resolution.outcome.vision <=> (resolution.provider = Google)

C28_Witness ==
  /\ resolution.outcome.type = "client"
  /\ resolution.explicit = None
  /\ resolution.provider = DeepSeek
  /\ resolution.outcome.api_key = environ["DEEPKEY_API_KEY"]
  /\ ~resolution.outcome.vision /\ resolution.outcome.function_calling

\* the name of the environment variable a provider's credential is read from
Variable(id) ==
  CASE id = Groq -> <<"G", "R", "O", "Q", "_", "A", "P", "I", "_", "K", "E", "Y">>
    [] id = OpenAI -> <<"O", "P", "E", "N", "_", "A", "I", "_", "K", "E", "Y">>
    [] id = Moonshot -> <<"O", "P", "E", "N", "_", "A", "I", "_", "K", "E", "Y">>
    [] id = DeepSeek -> <<"D", "E", "E", "P", "K", "E", "Y", "_", "A", "P", "I", "_", "K", "E", "Y">>
    [] id = Google -> <<"G", "O", "O", "G", "L", "E", "_", "A", "P", "I", "_", "K", "E", "Y">>

\* C29: the missing-credential error of a provider names the environment
\* variable its credential is read from: GROQ_API_KEY for groq, OPEN_AI_KEY
\* for openai and moonshot, DEEPKEY_API_KEY for deepseek, GOOGLE_API_KEY for
\* google.
C29_ErrorNamesVariable ==
  (resolution.outcome.type = "raise" /\ resolution.outcome.exc = "ValueError")
    => /\ resolution.provider \in Range(Registry)
       /\ ~HasKey(Credential(environ, resolution.provider))
       /\ resolution.outcome.msg
            = Variable(resolution.provider)
                \o SubSeq(ApiKeyNotFound, 9, Len(ApiKeyNotFound))

\* C30: the list_files tool reports the full count and displays at most the
\* first 20 entries: min(count, 20) entry lines, and a line "... and K more
\* items" with K = count - 20 exactly when count > 20; the result it formats
\* holds every entry.
C30_FirstTwenty ==
  \A i \in DOMAIN threads :
    threads[i].op = "list_files_tool"
      => /\ result.count = Cardinality(Children(fs, project_root))
         /\ Cardinality(result.files) = result.count
         /\ threads[i].output.count = result.count
         /\ Len(threads[i].output.lines)
              = IF result.count < 20 THEN result.count ELSE 20
         /\ \A j, k \in DOMAIN threads[i].output.lines :
              /\ \E e \in result.files :
                   e.path = threads[i].output.lines[j].path
              /\ (threads[i].output.lines[j] = threads[i].output.lines[k])
                   => j = k
         /\ (threads[i].output.more # <<>>) <=> (result.count > 20)
         /\ result.count > 20
              => threads[i].output.more = <<result.count - 20>>

C30_Witness ==
  /\ threads # <<>> /\ threads[1].op = "list_files_tool"
  /\ result.count = 23
  /\ Len(threads[1].output.lines) = 20
  /\ threads[1].output.more = <<3>>

====
